---- MODULE Spec2Model ----
(***************************************************************************)
(* Model of the transform stage of the InterCom audio intercom:            *)
(*   src/intercom_binaural.py  Intercom_binaural  (binaural decorrelation) *)
(*   src/intercom_dwt.py       Intercom_DWT       (wavelet-domain mode)    *)
(*                                                                         *)
(* A chunk is a tuple of channels, each channel a tuple of                 *)
(* frames_per_chunk samples: the Python indata[:,c] is chunk[c+1].         *)
(* Samples and buffer words are 16-bit two's-complement integers           *)
(* (the sign bit 0x8000 and the shift by 15 of intercom_dwt.py:114-120).   *)
(*                                                                         *)
(* Three specifications share the module:                                  *)
(*   Spec       the session: init, the period callback statement by        *)
(*              statement, and the transport acting on the buffer;         *)
(*   SpecWord   pack / transport / unpack applied to every 16-bit value;   *)
(*   SpecDecor  the two decorrelation variants applied to stereo chunks.   *)
(***************************************************************************)
EXTENDS Integers, Sequences, FiniteSets

VARIABLES
    \* ---- the session (Spec)
    state,                        \* "Uninitialized" | "Calibrating" | "Ready" | "Failed"
    class,                        \* the class that was instantiated
    number_of_channels,           \* self.number_of_channels
    record_send_and_play,         \* the method bound as the period callback
    precision_bits,               \* self.precision_bits ("unset" before init)
    random,                       \* the calibration probe while init calibrates
    buffer,                       \* self._buffer: slot -> chunk
    received_bitplanes_per_chunk, \* slot -> bitplanes received
    played_chunk_number,          \* self.played_chunk_number
    \* ---- one invocation of the period callback (Spec)
    pc,                           \* next statement of the callback ("idle" outside)
    indata,                       \* the callback's indata
    captured,                     \* the chunk the device handed in (history)
    sent,                         \* what send() was given
    outdata,                      \* the callback's outdata
    looped,                       \* the sent chunk was stored unchanged in the played slot
    log,                          \* stages run so far in this invocation (history)
    played_slot,                  \* the slot line 118 read in this invocation (history)
    counters_before,              \* received_bitplanes_per_chunk at callback entry (history)
    \* ---- SpecWord
    a, word, dropped, value, wpc,
    \* ---- SpecDecor
    variant, original, current, dpc

vars == <<state, class, number_of_channels, record_send_and_play, precision_bits,
          random, buffer, received_bitplanes_per_chunk, played_chunk_number,
          pc, indata, captured, sent, outdata, looped, log, played_slot,
          counters_before, a, word, dropped, value, wpc,
          variant, original, current, dpc>>

sessionVars == <<state, class, number_of_channels, record_send_and_play,
                 precision_bits, random, buffer, received_bitplanes_per_chunk,
                 played_chunk_number, pc, indata, captured, sent, outdata,
                 looped, log, played_slot, counters_before>>
wordVars == <<a, word, dropped, value, wpc>>
decorVars == <<variant, original, current, dpc>>

\* The variables of the specifications that are not running.
NoSession ==
    /\ state = "Uninitialized" /\ class = "Intercom_DWT"
    /\ number_of_channels = 2
    /\ record_send_and_play = "record_send_and_play"
    /\ precision_bits = "unset" /\ random = <<>>
    /\ buffer = <<>> /\ received_bitplanes_per_chunk = <<>>
    /\ played_chunk_number = 0
    /\ pc = "idle" /\ indata = <<>> /\ captured = <<>> /\ sent = <<>>
    /\ outdata = <<>> /\ looped = FALSE /\ log = <<>> /\ played_slot = 0
    /\ counters_before = <<>>

NoWord == a = 0 /\ word = 0 /\ dropped = 0 /\ value = 0 /\ wpc = "in"

NoDecor == variant = "plain" /\ original = <<>> /\ current = <<>> /\ dpc = "in"

----------------------------------------------------------------------------
(* Bounds of the model *)

MaxSample == 1          \* captured samples are drawn from -MaxSample..MaxSample
MaxChunks == 2          \* periods run per session
MaxBitplanes == 1       \* bitplanes the transport reports per slot
MaxDecorSample == 1     \* SpecDecor: small samples -MaxDecorSample..MaxDecorSample

cells_in_buffer == 2    \* slots of the playback buffer

(* Session configuration: the shortest chunk one decomposition level acts on *)

frames_per_chunk == 2

(* Program constants *)

SampleBits == 16        \* np.int16 samples: randint(low=-32768, high=32767)
SignMask == 32768       \* 0x8000
SignShift == 15         \* chunk >> 15
MagnitudeMask == 32767  \* 0x7FFF

----------------------------------------------------------------------------
(* Integer arithmetic as numpy does it *)

Pow2(n) == 2 ^ n

Abs(x) == IF x < 0 THEN -x ELSE x

MinInt16 == -Pow2(SampleBits - 1)
MaxInt16 == Pow2(SampleBits - 1) - 1
Int16 == MinInt16..MaxInt16

\* The value a 16-bit two's-complement cell holds after x is stored in it.
Wrap16Saturating(x) == IF x > MaxInt16 THEN MaxInt16 ELSE IF x < MinInt16 THEN MinInt16 ELSE x
Wrap16(x) == ((x - MinInt16) % Pow2(SampleBits)) + MinInt16

\* x & y, x | y on two's-complement integers of any width.
RECURSIVE BitAnd(_, _)
BitAnd(x, y) ==
    IF x = 0 \/ y = 0 THEN 0
    ELSE IF x = -1 THEN y
    ELSE IF y = -1 THEN x
    ELSE (x % 2) * (y % 2) + 2 * BitAnd(x \div 2, y \div 2)

RECURSIVE BitOr(_, _)
BitOr(x, y) ==
    IF x = 0 THEN y
    ELSE IF y = 0 THEN x
    ELSE IF x = -1 \/ y = -1 THEN -1
    ELSE (IF x % 2 = 1 \/ y % 2 = 1 THEN 1 ELSE 0) + 2 * BitOr(x \div 2, y \div 2)

\* x >> n on a signed integer (arithmetic shift).
ShiftRight(x, n) == x \div Pow2(n)

----------------------------------------------------------------------------
(* Sign-magnitude pack and unpack, one word (intercom_dwt.py:114-121) *)

\* signs = indata & 0x8000; magnitudes = abs(indata); signs | magnitudes.
\* abs() of an int16 stays int16, so abs(-32768) wraps to -32768.
PackTwosComplement(x) == x
Pack(x) == BitOr(BitAnd(x, SignMask), Wrap16(Abs(x)))

\* signs = chunk >> 15
SignOfLogicalShift(w) == ShiftRight(w, SignShift) % 2
SignOf(w) == ShiftRight(w, SignShift)

\* magnitudes = chunk & 0x7FFF
MagnitudeOf(w) == BitAnd(w, MagnitudeMask)

\* magnitudes + magnitudes*signs*2, in the 16-bit arithmetic of the slot
RecombineSubtracting(m, s) == Wrap16(m - m * s * 2)
Recombine(m, s) == Wrap16(m + m * s * 2)

Unpack(w) == Recombine(MagnitudeOf(w), SignOf(w))

(* The transport between send() and the buffer slot (Intercom_bitplanes) *)

\* The packed word travels as SampleBits bitplanes and is rebuilt in a
\* 16-bit buffer cell.
Store16(x) == Wrap16(x)

\* Bitplanes that never arrived are zero bits in the cell: here the k lowest.
ZeroLowPlanes(w, k) == w - (w % Pow2(k))

(* Pack, unpack and the transport, on every word of a chunk *)

PackChunk(chunk) == [c \in DOMAIN chunk |-> [i \in DOMAIN chunk[c] |-> Pack(chunk[c][i])]]

UnpackChunk(chunk) == [c \in DOMAIN chunk |-> [i \in DOMAIN chunk[c] |-> Unpack(chunk[c][i])]]

StoreChunk(chunk) == [c \in DOMAIN chunk |-> [i \in DOMAIN chunk[c] |-> Store16(chunk[c][i])]]

----------------------------------------------------------------------------
(* Chunks *)

Frames == 1..frames_per_chunk

ZeroChunk(n) == [c \in 1..n |-> [i \in Frames |-> 0]]

\* Every chunk of n channels whose samples are in S.
ChunksOver(S, n) == [1..n -> [Frames -> S]]

\* x -= y and x += y on int16 columns: the result wraps to 16 bits.
SubColumns(x, y) == [i \in DOMAIN x |-> Wrap16(x[i] - y[i])]
AddColumns(x, y) == [i \in DOMAIN x |-> Wrap16(x[i] + y[i])]

(* Binaural decorrelation (intercom_binaural.py:24,26; intercom_dwt.py:112,123) *)

\* indata[:,0] -= indata[:,1]
BinauralDecorrelate(chunk) == [chunk EXCEPT ![1] = SubColumns(chunk[1], chunk[2])]

\* slot[:,0] += slot[:,1]
BinauralRecorrelate(chunk) == [chunk EXCEPT ![1] = AddColumns(chunk[1], chunk[2])]

\* indata[:,1] -= indata[:,0]
DWTDecorrelateSwapped(chunk) == [chunk EXCEPT ![1] = SubColumns(chunk[1], chunk[2])]
DWTDecorrelate(chunk) == [chunk EXCEPT ![2] = SubColumns(chunk[2], chunk[1])]

\* slot[:,1] += slot[:,0]
DWTRecorrelate(chunk) == [chunk EXCEPT ![2] = AddColumns(chunk[2], chunk[1])]

(* The subband transform (intercom_dwt.py:128-134).                        *)
(* wt.wavedec / wt.waverec are library calls. They are modelled by one     *)
(* level of the integer lifting (S) transform on the pairs of a column:    *)
(* an analysis/synthesis pair with perfect reconstruction that is not the  *)
(* identity. The coefficient array holds the approximation subband first,  *)
(* then the detail subband, as wt.coeffs_to_array lays them out.           *)

Half == frames_per_chunk \div 2

DetailOf(x, j) == x[2 * j] - x[2 * j - 1]
ApproxOf(x, j) == x[2 * j - 1] + (DetailOf(x, j) \div 2)

\* forward_transform(chunk): one column in, its coefficient array out.
forward_transform(x) ==
    [i \in Frames |-> IF i <= Half THEN ApproxOf(x, i) ELSE DetailOf(x, i - Half)]

EvenOf(y, j) == y[j] - (y[Half + j] \div 2)

InverseColumn(y) ==
    [i \in Frames |->
        IF i % 2 = 1 THEN EvenOf(y, (i + 1) \div 2)
        ELSE EvenOf(y, i \div 2) + y[Half + (i \div 2)]]

\* inverse_transform(coeffs_in_array): the callback hands it the whole slot,
\* so the synthesis runs down the frames of every column it is given.
inverse_transform(coeffs_in_array) ==
    [c \in DOMAIN coeffs_in_array |-> InverseColumn(coeffs_in_array[c])]

\* indata[:,0] = self.forward_transform(indata[:,0]): the coefficients are
\* stored in the int16 column of indata.
TransformChannel0(chunk) ==
    [chunk EXCEPT ![1] = [i \in Frames |-> Wrap16(forward_transform(chunk[1])[i])]]

(* Calibration (intercom_dwt.py:93-101) *)

RECURSIVE FloorLog2(_)
FloorLog2(r) == IF r < 2 THEN 0 ELSE 1 + FloorLog2(r \div 2)

SeqMax(y) == CHOOSE m \in {y[i] : i \in DOMAIN y} : \A i \in DOMAIN y : y[i] <= m
SeqMin(y) == CHOOSE m \in {y[i] : i \in DOMAIN y} : \A i \in DOMAIN y : m <= y[i]

\* range = max - min over the probe's coefficient array
CoeffRange(probe) == SeqMax(forward_transform(probe)) - SeqMin(forward_transform(probe))

\* math.log(range) raises ValueError for range <= 0; otherwise
\* int(floor(log(range)/log(2))).
get_coeffs_bitplanes(probe) ==
    IF CoeffRange(probe) <= 0
    THEN [raised |-> TRUE, bitplanes |-> 0]
    ELSE [raised |-> FALSE, bitplanes |-> FloorLog2(CoeffRange(probe))]

\* np.random.randint(low=-32768, high=32767): the probes tried here.
ProbeSamples == {MinInt16, 0, 1}
Probes == [Frames -> ProbeSamples]

(* Handler selection (intercom_binaural.py:16-20) *)

\* if self.number_of_channels == 2: self.record_send_and_play = self.record_send_and_play_stereo
InstallHandlerAlways(n, handler) == "record_send_and_play_stereo"
InstallHandler(n, handler) ==
    IF n = 2 THEN "record_send_and_play_stereo" ELSE handler

----------------------------------------------------------------------------
(* Spec: the session *)

Slots == 0..(cells_in_buffer - 1)
Samples == (-MaxSample)..MaxSample

StereoHandler == "record_send_and_play_stereo"

\* The slot the callback reads and plays.
CurrentSlot == played_chunk_number % cells_in_buffer

Init ==
    /\ state = "Uninitialized"
    /\ class \in {"Intercom_binaural", "Intercom_DWT"}
    /\ number_of_channels \in {1, 2}
    /\ record_send_and_play = "record_send_and_play"
    /\ precision_bits = "unset"
    /\ random = <<>>
    /\ buffer = [s \in Slots |-> ZeroChunk(number_of_channels)]
    /\ received_bitplanes_per_chunk = [s \in Slots |-> 0]
    /\ played_chunk_number = 0
    /\ pc = "idle" /\ indata = <<>> /\ captured = <<>> /\ sent = <<>>
    /\ outdata = <<>> /\ looped = FALSE /\ log = <<>> /\ played_slot = 0
    /\ counters_before = <<>>
    /\ NoWord /\ NoDecor

bufferVars == <<buffer, received_bitplanes_per_chunk, played_chunk_number>>
callbackVars == <<pc, indata, captured, sent, outdata, looped, log, played_slot,
                  counters_before>>
configVars == <<class, number_of_channels>>

\* Intercom_binaural.init, for a session of class Intercom_binaural.
binaural_init ==
    /\ state = "Uninitialized"
    /\ class = "Intercom_binaural"
    /\ record_send_and_play' = InstallHandler(number_of_channels, record_send_and_play)
    /\ state' = "Ready"
    /\ UNCHANGED <<precision_bits, random>>
    /\ UNCHANGED configVars /\ UNCHANGED bufferVars /\ UNCHANGED callbackVars
    /\ UNCHANGED wordVars /\ UNCHANGED decorVars

\* Intercom_DWT.init up to the call of get_coeffs_bitplanes: the inherited
\* init chain (which runs Intercom_binaural.init) and the drawing of the probe.
DWT_init ==
    /\ state = "Uninitialized"
    /\ class = "Intercom_DWT"
    /\ record_send_and_play' = InstallHandler(number_of_channels, record_send_and_play)
    /\ \E p \in Probes : random' = p
    /\ state' = "Calibrating"
    /\ UNCHANGED precision_bits
    /\ UNCHANGED configVars /\ UNCHANGED bufferVars /\ UNCHANGED callbackVars
    /\ UNCHANGED wordVars /\ UNCHANGED decorVars

\* self.precision_bits = self.get_coeffs_bitplanes(): the exception of a
\* non-positive range leaves init, and the program, unfinished.
DWT_calibrate ==
    /\ state = "Calibrating"
    /\ LET r == get_coeffs_bitplanes(random)
       IN  IF r.raised
           THEN state' = "Failed" /\ UNCHANGED precision_bits
           ELSE state' = "Ready" /\ precision_bits' = r.bitplanes
    /\ random' = <<>>
    /\ UNCHANGED record_send_and_play
    /\ UNCHANGED configVars /\ UNCHANGED bufferVars /\ UNCHANGED callbackVars
    /\ UNCHANGED wordVars /\ UNCHANGED decorVars

(* The transport and the buffer (Intercom_bitplanes, Intercom_buffer) *)

\* The transport counts a bitplane received for a slot.
receive_bitplane ==
    /\ state = "Ready"
    /\ pc = "idle"
    /\ \E s \in Slots :
          /\ received_bitplanes_per_chunk[s] < MaxBitplanes
          /\ received_bitplanes_per_chunk' =
                [received_bitplanes_per_chunk EXCEPT ![s] = @ + 1]
    /\ UNCHANGED <<buffer, played_chunk_number>>
    /\ UNCHANGED <<state, record_send_and_play, precision_bits, random>>
    /\ UNCHANGED configVars /\ UNCHANGED callbackVars
    /\ UNCHANGED wordVars /\ UNCHANGED decorVars

\* The chunk just sent comes back whole, before the callback reads the slot
\* it is about to play: every word is rebuilt in its 16-bit cell.
deliver ==
    /\ pc \in {"dwt118", "bin26", "default_play"}
    /\ ~looped
    /\ buffer' = [buffer EXCEPT ![CurrentSlot] = StoreChunk(sent)]
    /\ looped' = TRUE
    /\ UNCHANGED <<received_bitplanes_per_chunk, played_chunk_number>>
    /\ UNCHANGED <<pc, indata, captured, sent, outdata, log, played_slot, counters_before>>
    /\ UNCHANGED <<state, record_send_and_play, precision_bits, random>>
    /\ UNCHANGED configVars /\ UNCHANGED wordVars /\ UNCHANGED decorVars

\* play(outdata): the current slot goes to the device, the slot is cleared
\* for reuse and the played-chunk counter advances.
PlayedOut == StoreChunk(buffer[CurrentSlot])
BufferAfterPlay == [buffer EXCEPT ![CurrentSlot] = ZeroChunk(number_of_channels)]

sessionFixed == <<state, record_send_and_play, precision_bits, random, class,
                  number_of_channels>>

(* The period callback *)

\* Where the bound handler starts.
EntryOf(handler) ==
    IF handler = StereoHandler
    THEN (IF class = "Intercom_DWT" THEN "dwt112" ELSE "bin24")
    ELSE "default_send"

\* The device calls record_send_and_play(indata, outdata, ...). The stereo
\* handlers index channel 1: on a chunk without it they raise at once.
callback ==
    /\ state = "Ready"
    /\ pc = "idle"
    /\ played_chunk_number < MaxChunks
    /\ \E chunk \in ChunksOver(Samples, number_of_channels) :
          /\ indata' = chunk
          /\ captured' = chunk
    /\ IF record_send_and_play = StereoHandler /\ number_of_channels < 2
       THEN pc' = "return"
       ELSE pc' = EntryOf(record_send_and_play)
    /\ counters_before' = received_bitplanes_per_chunk
    /\ played_slot' = CurrentSlot
    /\ sent' = <<>> /\ outdata' = <<>> /\ looped' = FALSE /\ log' = <<>>
    /\ UNCHANGED bufferVars /\ UNCHANGED sessionFixed
    /\ UNCHANGED wordVars /\ UNCHANGED decorVars

\* The callback returns: its arguments are gone.
callback_return ==
    /\ pc = "return"
    /\ pc' = "idle"
    /\ indata' = <<>> /\ captured' = <<>> /\ sent' = <<>> /\ outdata' = <<>>
    /\ looped' = FALSE /\ log' = <<>> /\ played_slot' = 0
    /\ counters_before' = <<>>
    /\ UNCHANGED bufferVars /\ UNCHANGED sessionFixed
    /\ UNCHANGED wordVars /\ UNCHANGED decorVars

(* Intercom_DWT.record_send_and_play_stereo, statement by statement *)

\* 112: indata[:,1] -= indata[:,0]
dwt_L112 ==
    /\ pc = "dwt112"
    /\ indata' = DWTDecorrelate(indata)
    /\ log' = Append(log, "decorrelate")
    /\ pc' = "dwt113"
    /\ UNCHANGED <<captured, sent, outdata, looped, played_slot, counters_before>>
    /\ UNCHANGED bufferVars /\ UNCHANGED sessionFixed
    /\ UNCHANGED wordVars /\ UNCHANGED decorVars

\* 113: indata[:,0] = self.forward_transform(indata[:,0])  (stored as int16)
dwt_L113 ==
    /\ pc = "dwt113"
    /\ indata' = TransformChannel0(indata)
    /\ log' = Append(log, "forward_transform")
    /\ pc' = "dwt114"
    /\ UNCHANGED <<captured, sent, outdata, looped, played_slot, counters_before>>
    /\ UNCHANGED bufferVars /\ UNCHANGED sessionFixed
    /\ UNCHANGED wordVars /\ UNCHANGED decorVars

\* 114-116: signs, magnitudes, indata = signs | magnitudes
dwt_L114 ==
    /\ pc = "dwt114"
    /\ indata' = PackChunk(indata)
    /\ log' = Append(log, "pack")
    /\ pc' = "dwt117"
    /\ UNCHANGED <<captured, sent, outdata, looped, played_slot, counters_before>>
    /\ UNCHANGED bufferVars /\ UNCHANGED sessionFixed
    /\ UNCHANGED wordVars /\ UNCHANGED decorVars

\* 117: self.send(indata)
dwt_L117 ==
    /\ pc = "dwt117"
    /\ sent' = indata
    /\ log' = Append(log, "send")
    /\ pc' = "dwt118"
    /\ UNCHANGED <<indata, captured, outdata, looped, played_slot, counters_before>>
    /\ UNCHANGED bufferVars /\ UNCHANGED sessionFixed
    /\ UNCHANGED wordVars /\ UNCHANGED decorVars

\* 118-122: the slot is read, unpacked and written back
dwt_L118 ==
    /\ pc = "dwt118"
    /\ buffer' = [buffer EXCEPT ![CurrentSlot] = UnpackChunk(buffer[CurrentSlot])]
    /\ log' = Append(log, "unpack")
    /\ pc' = "dwt123"
    /\ UNCHANGED <<received_bitplanes_per_chunk, played_chunk_number>>
    /\ UNCHANGED <<indata, captured, sent, outdata, looped, played_slot, counters_before>>
    /\ UNCHANGED sessionFixed /\ UNCHANGED wordVars /\ UNCHANGED decorVars

\* 123: slot[:,1] += slot[:,0]
dwt_L123 ==
    /\ pc = "dwt123"
    /\ buffer' = [buffer EXCEPT ![CurrentSlot] = DWTRecorrelate(buffer[CurrentSlot])]
    /\ log' = Append(log, "recorrelate")
    /\ pc' = "dwt124"
    /\ UNCHANGED <<received_bitplanes_per_chunk, played_chunk_number>>
    /\ UNCHANGED <<indata, captured, sent, outdata, looped, played_slot, counters_before>>
    /\ UNCHANGED sessionFixed /\ UNCHANGED wordVars /\ UNCHANGED decorVars

\* 124: slot = self.inverse_transform(slot)
dwt_L124 ==
    /\ pc = "dwt124"
    /\ buffer' = [buffer EXCEPT ![CurrentSlot] = inverse_transform(buffer[CurrentSlot])]
    /\ log' = Append(log, "inverse_transform")
    /\ pc' = "dwt125"
    /\ UNCHANGED <<received_bitplanes_per_chunk, played_chunk_number>>
    /\ UNCHANGED <<indata, captured, sent, outdata, looped, played_slot, counters_before>>
    /\ UNCHANGED sessionFixed /\ UNCHANGED wordVars /\ UNCHANGED decorVars

\* 125: self.play(outdata)
dwt_L125 ==
    /\ pc = "dwt125"
    /\ outdata' = PlayedOut
    /\ buffer' = BufferAfterPlay
    /\ played_chunk_number' = played_chunk_number + 1
    /\ log' = Append(log, "play")
    /\ pc' = "dwt126"
    /\ UNCHANGED received_bitplanes_per_chunk
    /\ UNCHANGED <<indata, captured, sent, looped, played_slot, counters_before>>
    /\ UNCHANGED sessionFixed /\ UNCHANGED wordVars /\ UNCHANGED decorVars

\* 126: self.received_bitplanes_per_chunk[self.played_chunk_number % self.cells_in_buffer] = 0
ResetCurrentSlot == [received_bitplanes_per_chunk EXCEPT ![CurrentSlot] = 0]

dwt_L126 ==
    /\ pc = "dwt126"
    /\ received_bitplanes_per_chunk' = ResetCurrentSlot
    /\ pc' = "return"
    /\ UNCHANGED <<buffer, played_chunk_number>>
    /\ UNCHANGED <<indata, captured, sent, outdata, looped, log, played_slot, counters_before>>
    /\ UNCHANGED sessionFixed /\ UNCHANGED wordVars /\ UNCHANGED decorVars

(* Intercom_binaural.record_send_and_play_stereo, statement by statement *)

\* 24: indata[:,0] -= indata[:,1]
binaural_L24 ==
    /\ pc = "bin24"
    /\ indata' = BinauralDecorrelate(indata)
    /\ pc' = "bin25"
    /\ UNCHANGED <<captured, sent, outdata, looped, log, played_slot, counters_before>>
    /\ UNCHANGED bufferVars /\ UNCHANGED sessionFixed
    /\ UNCHANGED wordVars /\ UNCHANGED decorVars

\* 25: self.send(indata)
binaural_L25 ==
    /\ pc = "bin25"
    /\ sent' = indata
    /\ pc' = "bin26"
    /\ UNCHANGED <<indata, captured, outdata, looped, log, played_slot, counters_before>>
    /\ UNCHANGED bufferVars /\ UNCHANGED sessionFixed
    /\ UNCHANGED wordVars /\ UNCHANGED decorVars

\* 26: slot[:,0] += slot[:,1]
binaural_L26 ==
    /\ pc = "bin26"
    /\ buffer' = [buffer EXCEPT ![CurrentSlot] = BinauralRecorrelate(buffer[CurrentSlot])]
    /\ pc' = "bin27"
    /\ UNCHANGED <<received_bitplanes_per_chunk, played_chunk_number>>
    /\ UNCHANGED <<indata, captured, sent, outdata, looped, log, played_slot, counters_before>>
    /\ UNCHANGED sessionFixed /\ UNCHANGED wordVars /\ UNCHANGED decorVars

\* 27: self.play(outdata)
binaural_L27 ==
    /\ pc = "bin27"
    /\ outdata' = PlayedOut
    /\ buffer' = BufferAfterPlay
    /\ played_chunk_number' = played_chunk_number + 1
    /\ pc' = "return"
    /\ UNCHANGED received_bitplanes_per_chunk
    /\ UNCHANGED <<indata, captured, sent, looped, log, played_slot, counters_before>>
    /\ UNCHANGED sessionFixed /\ UNCHANGED wordVars /\ UNCHANGED decorVars

(* The inherited record_send_and_play, which a session of one channel keeps *)

default_send ==
    /\ pc = "default_send"
    /\ sent' = indata
    /\ pc' = "default_play"
    /\ UNCHANGED <<indata, captured, outdata, looped, log, played_slot, counters_before>>
    /\ UNCHANGED bufferVars /\ UNCHANGED sessionFixed
    /\ UNCHANGED wordVars /\ UNCHANGED decorVars

default_play ==
    /\ pc = "default_play"
    /\ outdata' = PlayedOut
    /\ buffer' = BufferAfterPlay
    /\ played_chunk_number' = played_chunk_number + 1
    /\ pc' = "return"
    /\ UNCHANGED received_bitplanes_per_chunk
    /\ UNCHANGED <<indata, captured, sent, looped, log, played_slot, counters_before>>
    /\ UNCHANGED sessionFixed /\ UNCHANGED wordVars /\ UNCHANGED decorVars

Next ==
    \/ binaural_init \/ DWT_init \/ DWT_calibrate
    \/ receive_bitplane \/ deliver
    \/ callback \/ callback_return
    \/ dwt_L112 \/ dwt_L113 \/ dwt_L114 \/ dwt_L117
    \/ dwt_L118 \/ dwt_L123 \/ dwt_L124 \/ dwt_L125 \/ dwt_L126
    \/ binaural_L24 \/ binaural_L25 \/ binaural_L26 \/ binaural_L27
    \/ default_send \/ default_play

Spec == Init /\ [][Next]_vars

----------------------------------------------------------------------------
(* Claims about the session, checked under Spec *)

IsPrefix(s, t) == Len(s) <= Len(t) /\ \A i \in 1..Len(s) : s[i] = t[i]

InDWTStereo == class = "Intercom_DWT" /\ record_send_and_play = StereoHandler

\* C1: in the wavelet-mode stereo callback the stages run in the order
\* decorrelate, forward transform, pack, send, unpack, inverse transform,
\* re-correlate, play; re-correlation never precedes the inverse transform.
SpecifiedOrder ==
    <<"decorrelate", "forward_transform", "pack", "send",
      "unpack", "inverse_transform", "recorrelate", "play">>

C1_StrictStageOrder == InDWTStereo => IsPrefix(log, SpecifiedOrder)

\* C2: lossless round trip. When the packed chunk of this period is stored
\* unchanged in the slot the play path then reads, the played chunk equals
\* the captured chunk within 1 per sample, on both channels.
WithinOne(x, y) ==
    \A c \in DOMAIN x : \A i \in DOMAIN x[c] : Abs(x[c][i] - y[c][i]) <= 1

C2_LosslessRoundTrip ==
    (InDWTStereo /\ pc = "dwt126" /\ looped) => WithinOne(outdata, captured)

\* C3: after every invocation of the wavelet-mode callback the reception
\* counter of the slot that was unpacked and played is 0, and the callback
\* changed the counter of no other slot.
C3_PlayedSlotCounterReset ==
    (InDWTStereo /\ pc = "return") =>
        /\ received_bitplanes_per_chunk[played_slot] = 0
        /\ \A s \in Slots \ {played_slot} :
              received_bitplanes_per_chunk[s] = counters_before[s]

\* C6: a session never becomes Ready with a bitplane count <= 0: when
\* Intercom_DWT.init completes precision_bits >= 1; a probe whose coefficient
\* range is not positive makes get_coeffs_bitplanes fail, init does not
\* complete and no chunk is ever processed in that session.
C6_NeverReadyWithoutBitplanes ==
    /\ [](class = "Intercom_DWT" /\ state = "Ready" => precision_bits >= 1)
    /\ [][(state = "Calibrating" /\ CoeffRange(random) <= 0) => state' = "Failed"]_vars
    /\ [](state = "Failed" => pc = "idle" /\ played_chunk_number = 0)

\* C7: mono pass-through. In a session whose number_of_channels is not 2 the
\* stereo handler is never installed, no statement of a stereo handler runs,
\* the chunk handed to send is the captured chunk, and the handler chosen
\* at init is never changed afterwards.
StereoStatements ==
    {"dwt112", "dwt113", "dwt114", "dwt117", "dwt118", "dwt123", "dwt124",
     "dwt125", "dwt126", "bin24", "bin25", "bin26", "bin27"}

C7_MonoPassThrough ==
    /\ [](number_of_channels # 2 =>
            /\ record_send_and_play # StereoHandler
            /\ pc \notin StereoStatements
            /\ pc = "default_send" => indata = captured
            /\ pc = "default_play" => (indata = captured /\ sent = captured))
    /\ [][state # "Uninitialized" => record_send_and_play' = record_send_and_play]_vars

C7_Witness ==
    /\ number_of_channels = 1 /\ state = "Ready"
    /\ record_send_and_play = "record_send_and_play"
    /\ pc = "default_play"
    /\ captured = <<<<1, 0>>>> /\ sent = captured

\* C8: pack and unpack take the sign from the bit position given by the
\* session's calibrated bitplane count b = precision_bits and the magnitude
\* from the bits below it.
Analysed(chunk) == TransformChannel0(DWTDecorrelate(chunk))

C8_SignBitAtCalibratedCount ==
    (InDWTStereo /\ state = "Ready" /\ pc = "dwt117") =>
        \A c \in DOMAIN indata : \A i \in DOMAIN indata[c] :
            LET x == Analysed(captured)[c][i]
                w == indata[c][i]
            IN  /\ (BitAnd(w, Pow2(precision_bits)) # 0) <=> (x < 0)
                /\ w % Pow2(precision_bits) = Abs(x)

----------------------------------------------------------------------------
(* SpecWord: pack -> transport (k low planes missing) -> unpack, one word *)

InitWord ==
    /\ a \in Int16
    /\ word = 0 /\ dropped = 0 /\ value = 0 /\ wpc = "in"
    /\ NoSession /\ NoDecor

WordPack ==
    /\ wpc = "in"
    /\ word' = Pack(a)
    /\ wpc' = "packed"
    /\ UNCHANGED <<a, dropped, value>>
    /\ UNCHANGED sessionVars /\ UNCHANGED decorVars

WordTransport ==
    /\ wpc = "packed"
    /\ \E k \in 0..SignShift :
          /\ word' = ZeroLowPlanes(Store16(word), k)
          /\ dropped' = k
    /\ wpc' = "stored"
    /\ UNCHANGED <<a, value>>
    /\ UNCHANGED sessionVars /\ UNCHANGED decorVars

WordUnpack ==
    /\ wpc = "stored"
    /\ value' = Unpack(word)
    /\ wpc' = "unpacked"
    /\ UNCHANGED <<a, word, dropped>>
    /\ UNCHANGED sessionVars /\ UNCHANGED decorVars

NextWord == WordPack \/ WordTransport \/ WordUnpack

SpecWord == InitWord /\ [][NextWord]_vars

----------------------------------------------------------------------------
(* SpecDecor: decorrelate, then re-correlate, one stereo chunk *)

DecorSamples == {MinInt16, MaxInt16} \cup (-MaxDecorSample..MaxDecorSample)

InitDecor ==
    /\ variant \in {"plain", "transform"}
    /\ original \in ChunksOver(DecorSamples, 2)
    /\ current = original
    /\ dpc = "in"
    /\ NoSession /\ NoWord

DecorForward ==
    /\ dpc = "in"
    /\ current' = IF variant = "plain" THEN BinauralDecorrelate(current)
                                       ELSE DWTDecorrelate(current)
    /\ dpc' = "forward"
    /\ UNCHANGED <<variant, original>>
    /\ UNCHANGED sessionVars /\ UNCHANGED wordVars

DecorInverse ==
    /\ dpc = "forward"
    /\ current' = IF variant = "plain" THEN BinauralRecorrelate(current)
                                       ELSE DWTRecorrelate(current)
    /\ dpc' = "inverse"
    /\ UNCHANGED <<variant, original>>
    /\ UNCHANGED sessionVars /\ UNCHANGED wordVars

NextDecor == DecorForward \/ DecorInverse

SpecDecor == InitDecor /\ [][NextDecor]_vars

\* The channel the variant keeps as reference.
ReferenceChannel == IF variant = "plain" THEN 2 ELSE 1

\* C5: decorrelation round trip. For every stereo chunk of 16-bit samples,
\* also where the subtraction wraps around, the inverse step after the
\* forward step restores the chunk exactly, in plain mode and in transform
\* mode, and neither step changes the reference channel.
C5_DecorrelationRoundTrip ==
    /\ dpc = "inverse" => current = original
    /\ current[ReferenceChannel] = original[ReferenceChannel]

C5_Witness ==
    /\ dpc = "inverse" /\ variant = "transform"
    /\ original[1][1] = MaxInt16 /\ original[2][1] = MinInt16
    /\ current = original

----------------------------------------------------------------------------
(* Claims about one packed word, checked under SpecWord *)

\* What arrives from x when the k lowest magnitude bitplanes never arrive.
Degraded(x, k) == Unpack(ZeroLowPlanes(Store16(Pack(x)), k))

\* C4: sign-magnitude round trip. For every signed value a with
\* |a| <= 2^15 - 1, unpacking the packed word, carried whole through the
\* 16-bit slot, gives back exactly a.
C4_PackUnpackRoundTrip ==
    (wpc = "unpacked" /\ dropped = 0 /\ Abs(a) <= MagnitudeMask) => value = a

C4_Witness ==
    /\ wpc = "unpacked" /\ dropped = 0
    /\ a = -12345 /\ word = -20423 /\ value = -12345

\* C9 as the specification words it: magnitude + magnitude*sign*2 is
\* +magnitude for sign = 0 and -magnitude for sign = 1, for every magnitude
\* of the magnitude field.
C9_RecombineSignOne ==
    wpc = "stored" =>
        LET m == MagnitudeOf(word)
        IN  Recombine(m, 0) = m /\ Recombine(m, 1) = -m

\* C9 amended: the sign the code extracts (word >> 15 on a 16-bit signed
\* word) is 0 or -1, never 1; the recombination gives +magnitude for sign 0
\* and -magnitude for sign -1, and that is the value unpack produces.
C9_RecombineSignMinusOne ==
    wpc \in {"stored", "unpacked"} =>
        LET m == MagnitudeOf(word)
            s == SignOf(word)
        IN  /\ s \in {0, -1}
            /\ (s = -1) <=> (word < 0)
            /\ m \in 0..MagnitudeMask
            /\ Recombine(m, 0) = m
            /\ Recombine(m, -1) = -m
            /\ wpc = "unpacked" => value = (IF s = 0 THEN m ELSE -m)

C9_Witness ==
    /\ wpc = "unpacked"
    /\ SignOf(word) = -1
    /\ MagnitudeOf(word) = 300
    /\ value = -300

\* C10: graceful degradation. For every a within the magnitude range and
\* every k, zeroing the k lowest magnitude bitplanes of the packed word and
\* unpacking gives v with |v| <= |a|, v = 0 or of a's sign; the error |a - v|
\* does not grow when one plane fewer is zeroed; zeroing all the magnitude
\* planes gives 0 whatever the sign bit is.
C10_GracefulDegradation ==
    wpc = "unpacked" =>
        /\ dropped = SignShift => value = 0
        /\ Abs(a) <= MagnitudeMask =>
              /\ Abs(value) <= Abs(a)
              /\ value = 0 \/ ((value < 0) <=> (a < 0))
              /\ dropped > 0 =>
                    Abs(a - Degraded(a, dropped - 1)) <= Abs(a - value)

C10_Witness ==
    /\ wpc = "unpacked"
    /\ a = -13 /\ dropped = 2 /\ value = -12

====
